---- MODULE Spec2Model ----
(***************************************************************************)
(* Live call session of the sales-call assistant.                          *)
(*                                                                         *)
(* One websocket connection (websocket_call) owns one CallSession.  The    *)
(* connection coroutine receives client frames one at a time and awaits    *)
(* each handler to its end; the transcription adapter's _on_transcript     *)
(* creates asyncio tasks for the session callbacks.  Everything runs on    *)
(* one asyncio event loop:                                                 *)
(*   - a coroutine runs without interruption up to its next suspension     *)
(*     (a call to the reasoning service, a database round trip, the        *)
(*     websocket receive);                                                 *)
(*   - tasks made by asyncio.create_task start in creation order (the      *)
(*     loop's ready queue is FIFO), before the handler of any I/O event    *)
(*     polled later; handlers of I/O events polled together with the       *)
(*     event that created them may run before them;                        *)
(*   - websocket.send_json hands the frame to the server in call order,    *)
(*     so an event is emitted at the point of the call.                    *)
(***************************************************************************)
EXTENDS Integers, Sequences, FiniteSets, TLC

\* Bounds of the model.
MaxMsgs == 4        \* client frames the connection receives
MaxProtocolMsgs == 3    \* of them, while every kind of frame may come
MaxSegments == 2    \* provider results the adapter delivers
MaxObservations == 4    \* calls made to the speaker resolver directly
MaxRatioSegments == 3   \* segments of a list given to calculate_talk_ratio
MaxDuration == 2        \* longest segment of such a list, in seconds
MaxUtterances == 3      \* final results the adapter delivers in a conversation
MaxSignals == 2         \* suggestion-needed signals given without a segment

CallId == "call-1"
Conn == "conn-1"        \* the connection whose coroutine is modelled step by step
PeerConn == "conn-2"    \* another connection of a client to the same call id
NoSpeaker == "none"
SpeakerIds == {"ch0", "ch1"}
Durations == {1}
ChannelIds == SpeakerIds \cup {"ch2"}    \* the ids a diarizer with three channels reports

VARIABLES
    \* websocket_call: the connection coroutine
    pc,                 \* where the connection coroutine is suspended
    in_cleanup,         \* TRUE while the finally block runs end_call
    req,                \* locals of the handler in progress
    now,                \* datetime.utcnow(), in ticks (one per received frame)
    last_frame,         \* the kind of the frame received last
    channel,            \* the client side of the websocket: "open" / "closed"
    active_sessions,    \* the module-level registry: call id -> owning connection
    loop_exit,          \* why the receive loop ended: "none", "disconnect", or the
                        \* exception: "malformed" (a frame that does not decode),
                        \* "provider" (reasoning or search service), "consent_write" /
                        \* "end_write" (database), "send" (websocket send)
    \* CallSession
    is_active, consent_granted, segments, suggestions, start_time,
    \* DeepgramTranscriptionService
    is_running, ts_segments, callbacks_set, speaker_map, audio_sent,
    \* AICoachingEngine
    conversation_history, context,
    \* SentimentAnalyzer
    sentiment_history,
    \* the database session
    db,
    \* events the client has been sent, in order
    sent,
    \* the event loop
    ready,              \* tasks created and not yet started, FIFO
    draining,           \* TRUE while the loop runs the tasks of the ready queue
    waiting,            \* tasks suspended on an external call
    \* history variables
    end_calls,          \* number of end_call invocations
    results,            \* results end_call has returned, in order
    escaped,            \* the exception that left websocket_call, or "none"
    analysed,           \* the analyses the dispatch policy has used, per utterance
    \* another connection opened for the same call id
    peer,               \* "absent", "open" or "closed"
    \* the speaker resolver driven directly
    observed            \* its calls in order: resolutions and calibrations

connVars == <<pc, in_cleanup, req, now, last_frame, channel, active_sessions, loop_exit>>
sessVars == <<is_active, consent_granted, segments, suggestions, start_time>>
adapterVars == <<is_running, ts_segments, callbacks_set, speaker_map, audio_sent>>
engineVars == <<conversation_history, context>>
loopVars == <<ready, draining, waiting>>
histVars == <<end_calls, results, escaped, analysed>>
otherVars == <<peer, observed>>
vars == <<connVars, sessVars, adapterVars, engineVars, sentiment_history, db, sent,
          loopVars, histVars, otherVars>>

----------------------------------------------------------------------------
\* Values

\* class Speaker
SALESPERSON == "salesperson"
PROSPECT == "prospect"
UNKNOWN == "unknown"

\* class SuggestionType
RESPONSE == "response"
QUESTION == "question"
OBJECTION_HANDLER == "objection_handler"
PRODUCT_PITCH == "product_pitch"
CLOSING == "closing"
RAPPORT == "rapport"
NEXT_STEP == "next_step"

\* ConversationContext() as constructed by __init__ and initialize_call
NewContext == [current_stage |-> "opening", objections_raised |-> <<>>,
               sentiment |-> "neutral"]

\* the call row of the database before the session touches it
NewDb == [transcripts |-> 0, suggestions |-> 0, status |-> "in_progress",
          ended_at |-> <<>>, duration |-> <<>>, consent |-> "pending",
          commits |-> 0]

NoReq == [duration |-> 0, transcript |-> <<>>, summary |-> "none",
          talk_ratio |-> <<>>, stype |-> "none"]

ExchangeOutcomes == {"ok", "raise"}

\* what _generate_suggestion's request may give: text, text that strips to
\* nothing, or an exception (no content at all raises too, at .strip())
GenerationOutcomes == {"ok", "blank", "raise"}

----------------------------------------------------------------------------
\* Pure functions of the services

\* a resolver that takes every new id after the first for the prospect
identify_speaker_two_party(map, speaker_id) ==
    IF speaker_id = NoSpeaker THEN UNKNOWN
    ELSE IF speaker_id \in DOMAIN map THEN map[speaker_id]
    ELSE IF Cardinality(DOMAIN map) = 0 THEN SALESPERSON
    ELSE PROSPECT

\* a resolver that applies the first-speaker heuristic before the lookup
identify_speaker_heuristic_first(map, speaker_id) ==
    IF speaker_id = NoSpeaker THEN UNKNOWN
    ELSE IF Cardinality(DOMAIN map \ {speaker_id}) = 0 THEN SALESPERSON
    ELSE IF speaker_id \in DOMAIN map THEN map[speaker_id]
    ELSE IF Cardinality(DOMAIN map) = 1 THEN PROSPECT
    ELSE UNKNOWN

\* DeepgramTranscriptionService._identify_speaker: the role of a channel id
identify_speaker(map, speaker_id) ==
    IF speaker_id = NoSpeaker THEN UNKNOWN
    ELSE IF speaker_id \in DOMAIN map THEN map[speaker_id]
    ELSE IF Cardinality(DOMAIN map) = 0 THEN SALESPERSON
    ELSE IF Cardinality(DOMAIN map) = 1 THEN PROSPECT
    ELSE UNKNOWN

\* DeepgramTranscriptionService._identify_speaker: the map after the lookup
identify_speaker_map(map, speaker_id) ==
    IF speaker_id = NoSpeaker \/ speaker_id \in DOMAIN map THEN map
    ELSE IF Cardinality(DOMAIN map) = 0
         THEN [x \in DOMAIN map \cup {speaker_id} |->
                  IF x = speaker_id THEN SALESPERSON ELSE map[x]]
    ELSE IF Cardinality(DOMAIN map) = 1
         THEN [x \in DOMAIN map \cup {speaker_id} |->
                  IF x = speaker_id THEN PROSPECT ELSE map[x]]
    ELSE map

\* DeepgramTranscriptionService.calibrate_speaker: the map after the call
calibrate_speaker_map(map, speaker_id, speaker_type) ==
    [x \in DOMAIN map \cup {speaker_id} |->
        IF x = speaker_id THEN speaker_type ELSE map[x]]

IsFinal(s) == s.is_final

\* get_segments / get_full_transcript: the final segments, in order
get_segments(segs) == SelectSeq(segs, IsFinal)

RECURSIVE SumTime(_, _)
SumTime(segs, who) ==
    IF segs = <<>> THEN 0
    ELSE (IF Head(segs).speaker = who THEN Head(segs).dur ELSE 0)
         + SumTime(Tail(segs), who)

\* a talk ratio taken over the time of every segment, whoever speaks
calculate_talk_ratio_of_all(segs) ==
    LET st == SumTime(segs, SALESPERSON)
        pt == SumTime(segs, PROSPECT)
        total == st + pt + SumTime(segs, UNKNOWN)
    IN IF total = 0 THEN [salesperson |-> <<0, 1>>, prospect |-> <<0, 1>>]
       ELSE [salesperson |-> <<st, total>>, prospect |-> <<pt, total>>]

\* SpeechAnalyzer.calculate_talk_ratio: each ratio as <<numerator, denominator>>
\* (with whole seconds the two float quotients s/(s+p) and p/(s+p) add up to
\* 1.0 without rounding error, so exact fractions stand for them)
calculate_talk_ratio(segs) ==
    LET st == SumTime(segs, SALESPERSON)
        pt == SumTime(segs, PROSPECT)
        total == st + pt
    IN IF total = 0 THEN [salesperson |-> <<0, 1>>, prospect |-> <<0, 1>>]
       ELSE [salesperson |-> <<st, total>>, prospect |-> <<pt, total>>]

\* _analyze_statement: the dictionaries the reasoning service's answer may parse to
\* (stage "absent": the answer has no suggested_stage key)
AnalysisResults ==
    { [intent |-> "objection", sentiment |-> "negative", buying |-> FALSE,
       urgency |-> "medium", stage |-> "objection", topics |-> <<"price">>],
      [intent |-> "question", sentiment |-> "neutral", buying |-> FALSE,
       urgency |-> "medium", stage |-> "pitch", topics |-> <<>>],
      [intent |-> "interest", sentiment |-> "positive", buying |-> FALSE,
       urgency |-> "medium", stage |-> "closing", topics |-> <<>>],
      [intent |-> "statement", sentiment |-> "positive", buying |-> TRUE,
       urgency |-> "high", stage |-> "pitch", topics |-> <<>>],
      [intent |-> "rejection", sentiment |-> "negative", buying |-> FALSE,
       urgency |-> "medium", stage |-> "absent", topics |-> <<>>],
      [intent |-> "statement", sentiment |-> "neutral", buying |-> FALSE,
       urgency |-> "low", stage |-> "absent", topics |-> <<>>] }

\* the content of the reasoning service's answer to _analyze_statement
AnalysisAnswers ==
    {[parses |-> TRUE, body |-> r] : r \in AnalysisResults} \cup {[parses |-> FALSE]}

\* a default classification that suggests no stage
DefaultAnalysis_without_stage ==
    [intent |-> "statement", sentiment |-> "neutral", buying |-> FALSE,
     urgency |-> "medium", stage |-> "absent", topics |-> <<>>]

\* _analyze_statement: the dictionary returned on json.JSONDecodeError
DefaultAnalysis ==
    [intent |-> "statement", sentiment |-> "neutral", buying |-> FALSE,
     urgency |-> "medium", stage |-> "discovery", topics |-> <<>>]

\* _analyze_statement: json.loads of the answer, or the default when it does not parse
analyze_statement(answer) ==
    IF answer.parses THEN answer.body ELSE DefaultAnalysis

\* AICoachingEngine._update_context
update_context(ctx, analysis) ==
    [ctx EXCEPT
        !.sentiment = analysis.sentiment,
        !.current_stage = IF analysis.stage = "absent" THEN @ ELSE analysis.stage,
        !.objections_raised = IF analysis.intent = "objection"
                              THEN @ \o analysis.topics ELSE @]

\* the flows _generate_contextual_suggestion routes to
HANDLE_OBJECTION == "handle_objection"
ANSWER_QUESTION == "answer_question"
CLOSING_FLOW == "get_closing_suggestion"
NEXT_STEP_FLOW == "capitalize_on_interest"
HANDLE_REJECTION == "handle_rejection"
CONTINUATION == "generate_continuation"

\* a router that looks at the buying-signal flag before the intent
contextual_flow_buying_first(ctx, analysis) ==
    IF analysis.intent = "interest" \/ analysis.buying
    THEN (IF ctx.current_stage = "closing" THEN CLOSING_FLOW ELSE NEXT_STEP_FLOW)
    ELSE IF analysis.intent = "objection" THEN HANDLE_OBJECTION
    ELSE IF analysis.intent = "question" THEN ANSWER_QUESTION
    ELSE IF analysis.intent = "rejection" THEN HANDLE_REJECTION
    ELSE CONTINUATION

\* _generate_contextual_suggestion: the flow chosen for an analysis, ctx being
\* the context _update_context has just updated (within _capitalize_on_interest
\* the closing stage hands over to get_closing_suggestion)
contextual_flow(ctx, analysis) ==
    IF analysis.intent = "objection" THEN HANDLE_OBJECTION
    ELSE IF analysis.intent = "question" THEN ANSWER_QUESTION
    ELSE IF analysis.intent = "interest" \/ analysis.buying
         THEN (IF ctx.current_stage = "closing" THEN CLOSING_FLOW ELSE NEXT_STEP_FLOW)
    ELSE IF analysis.intent = "rejection" THEN HANDLE_REJECTION
    ELSE CONTINUATION

\* the suggestion type a flow asks _generate_suggestion for
flow_suggestion_type(flow, ctx) ==
    CASE flow = HANDLE_OBJECTION -> OBJECTION_HANDLER
      [] flow = ANSWER_QUESTION -> RESPONSE
      [] flow = CLOSING_FLOW -> CLOSING
      [] flow = NEXT_STEP_FLOW -> NEXT_STEP
      [] flow = HANDLE_REJECTION -> RESPONSE
      [] flow = CONTINUATION ->
            IF ctx.current_stage = "discovery" THEN QUESTION ELSE RESPONSE

\* _generate_contextual_suggestion and the flow it routes to: the suggestion
\* type that flow asks _generate_suggestion for
contextual_suggestion_type(ctx, analysis) ==
    flow_suggestion_type(contextual_flow(ctx, analysis), ctx)

\* the flows that query the vector store before generating
SearchesVectorStore(analysis) == analysis.intent \in {"objection", "question"}

\* a CoachingSuggestion: its type, its content and its confidence, in hundredths
Suggestion(stype, content, confidence) ==
    [type |-> stype, content |-> content, confidence |-> confidence]

\* a generation whose fallback keeps the requested type and says nothing
generate_suggestion_silent_fallback(stype, outcome) ==
    IF outcome = "ok" THEN Suggestion(stype, "text", 85)
    ELSE IF outcome = "blank" THEN Suggestion(stype, "", 85)
    ELSE Suggestion(stype, "", 0)

\* a generation whose fallback is typed as a rapport suggestion
generate_suggestion_rapport_fallback(stype, outcome) ==
    IF outcome = "ok" THEN Suggestion(stype, "text", 85)
    ELSE IF outcome = "blank" THEN Suggestion(stype, "", 85)
    ELSE Suggestion(RAPPORT, "Continue listening and ask clarifying questions.", 30)

\* _generate_suggestion: the requested type with the service's stripped
\* content, or the "Continue listening" fallback when the call raises
generate_suggestion(stype, outcome) ==
    IF outcome = "ok" THEN Suggestion(stype, "text", 85)
    ELSE IF outcome = "blank" THEN Suggestion(stype, "", 85)
    ELSE Suggestion(RESPONSE, "Continue listening and ask clarifying questions.", 30)

\* a gate that stays shut
ForwardsAudio_never(active, consent) == FALSE

\* a gate that forwards whenever the session is active, whatever the consent
ForwardsAudio_ignoring_consent(active, consent) == active

\* CallSession.process_audio: whether the frame goes to send_audio
ForwardsAudio(active, consent) == active /\ consent

----------------------------------------------------------------------------
\* websocket.send_json: what a send can do in the channel's present state
SendOutcomes == IF channel = "open" THEN {"sent"} ELSE {"raise", "dropped"}

Emit(ev, o) == IF o = "sent" THEN Append(sent, ev) ELSE sent

\* the suggestion event of a suggestion; trigger is the utterance the
\* automatic dispatch made it for (0: the opening, or a client's request)
SuggestionEvent(sugg, trigger) ==
    [type |-> "suggestion", stype |-> sugg.type, content |-> sugg.content,
     confidence |-> sugg.confidence, trigger |-> trigger]

\* an exception leaves the handler: caught by the receive loop's except
\* clauses, or, inside the finally block, leaves websocket_call
Raise(cause) ==
    /\ pc' = IF in_cleanup THEN "done" ELSE "finally"
    /\ loop_exit' = IF in_cleanup THEN loop_exit ELSE cause
    /\ escaped' = IF in_cleanup THEN cause ELSE escaped
    /\ req' = NoReq

\* active_sessions[call_id] = session
registry_put(registry, call_id, conn) ==
    [k \in DOMAIN registry \cup {call_id} |-> IF k = call_id THEN conn ELSE registry[k]]

\* del active_sessions[call_id]
registry_del(registry, call_id) ==
    [k \in DOMAIN registry \ {call_id} |-> registry[k]]

\* call_id in active_sessions
Registered(call_id) == call_id \in DOMAIN active_sessions

\* the loop is between callbacks and may run the handler of an I/O event
Polling == ~draining /\ pc # "finally"

Init ==
    /\ pc = "recv" /\ in_cleanup = FALSE /\ req = NoReq /\ now = 0 /\ last_frame = "none"
    /\ channel = "open" /\ active_sessions = registry_put(<<>>, CallId, Conn)
    /\ loop_exit = "none"
    /\ is_active = FALSE /\ consent_granted = FALSE
    /\ segments = <<>> /\ suggestions = <<>> /\ start_time = <<>>
    /\ is_running = FALSE /\ ts_segments = <<>> /\ callbacks_set = FALSE
    /\ speaker_map = [x \in {} |-> UNKNOWN] /\ audio_sent = 0
    /\ conversation_history = <<>> /\ context = NewContext
    /\ sentiment_history = <<>>
    /\ db = NewDb
    /\ sent = <<>>
    /\ ready = <<>> /\ draining = FALSE /\ waiting = {}
    /\ end_calls = 0 /\ results = <<>> /\ escaped = "none" /\ analysed = {}
    /\ peer = "absent" /\ observed = <<>>

----------------------------------------------------------------------------
\* The speaker resolver of a new adapter, called directly.  (CallSession.start
\* passes no salesperson_speaker_id to start_stream, so start_stream leaves
\* the map alone.)

\* everything but the resolver
notResolverVars ==
    <<connVars, sessVars, is_running, ts_segments, callbacks_set, audio_sent,
      engineVars, sentiment_history, db, sent, loopVars, histVars, peer>>

\* _identify_speaker(speaker_id), as _on_transcript calls it for a result
observe_speaker ==
    /\ Len(observed) < MaxObservations
    /\ \E speaker_id \in ChannelIds \cup {NoSpeaker} :
         /\ observed' = Append(observed,
                [op |-> "resolve", speaker_id |-> speaker_id,
                 speaker |-> identify_speaker(speaker_map, speaker_id)])
         /\ speaker_map' = identify_speaker_map(speaker_map, speaker_id)
    /\ UNCHANGED notResolverVars

\* calibrate_speaker(speaker_id, speaker_type)
calibrate_speaker ==
    /\ Len(observed) < MaxObservations
    /\ \E speaker_id \in ChannelIds, speaker_type \in {SALESPERSON, PROSPECT, UNKNOWN} :
         /\ observed' = Append(observed,
                [op |-> "calibrate", speaker_id |-> speaker_id, speaker |-> speaker_type])
         /\ speaker_map' = calibrate_speaker_map(speaker_map, speaker_id, speaker_type)
    /\ UNCHANGED notResolverVars

NextResolver == observe_speaker \/ calibrate_speaker

SpecResolver == Init /\ [][NextResolver]_vars

----------------------------------------------------------------------------
\* SpeechAnalyzer.calculate_talk_ratio (a static method) applied to a list of
\* segments

\* the lists: any speakers, whole durations from 0 to MaxDuration
SegmentLists ==
    UNION { [1..n -> [speaker : {SALESPERSON, PROSPECT, UNKNOWN},
                      dur : 0..MaxDuration, is_final : {TRUE}, id : {0}]]
            : n \in 0..MaxRatioSegments }

InitTalkRatio ==
    /\ pc = "recv" /\ in_cleanup = FALSE /\ req = NoReq /\ now = 0 /\ last_frame = "none"
    /\ channel = "open" /\ active_sessions = registry_put(<<>>, CallId, Conn)
    /\ loop_exit = "none"
    /\ is_active = FALSE /\ consent_granted = FALSE
    /\ segments \in SegmentLists
    /\ suggestions = <<>> /\ start_time = <<>>
    /\ is_running = FALSE /\ ts_segments = <<>> /\ callbacks_set = FALSE
    /\ speaker_map = [x \in {} |-> UNKNOWN] /\ audio_sent = 0
    /\ conversation_history = <<>> /\ context = NewContext
    /\ sentiment_history = <<>>
    /\ db = NewDb
    /\ sent = <<>>
    /\ ready = <<>> /\ draining = FALSE /\ waiting = {}
    /\ end_calls = 0 /\ results = <<>> /\ escaped = "none" /\ analysed = {}
    /\ peer = "absent" /\ observed = <<>>

\* talk_ratio = self.speech_analyzer.calculate_talk_ratio(self.segments)
apply_talk_ratio ==
    /\ req.talk_ratio = <<>>
    /\ req' = [req EXCEPT !.talk_ratio = calculate_talk_ratio(segments)]
    /\ UNCHANGED <<pc, in_cleanup, now, last_frame, channel, active_sessions, loop_exit,
                   sessVars, adapterVars, engineVars, sentiment_history, db, sent,
                   loopVars, histVars, otherVars>>

SpecTalkRatio == InitTalkRatio /\ [][apply_talk_ratio]_vars

----------------------------------------------------------------------------
\* The routing of process_transcript applied to an analysis, in a context at
\* any stage

\* ConversationContext.current_stage
Stages == {"opening", "discovery", "pitch", "objection", "closing"}

\* the intents an analysis may carry ("other": any string the router has no
\* branch for; a missing intent reads as "statement")
Intents == {"question", "objection", "statement", "interest", "rejection", "other"}

\* the analyses, as far as the routing reads them
RoutingAnalyses ==
    [intent : Intents, buying : BOOLEAN, stage : Stages \cup {"absent"},
     sentiment : {"neutral"}, urgency : {"medium"}, topics : {<<>>}]

InitRouting ==
    /\ pc = "recv" /\ in_cleanup = FALSE /\ req = NoReq /\ now = 0 /\ last_frame = "none"
    /\ channel = "open" /\ active_sessions = registry_put(<<>>, CallId, Conn)
    /\ loop_exit = "none"
    /\ is_active = FALSE /\ consent_granted = FALSE
    /\ segments = <<>> /\ suggestions = <<>> /\ start_time = <<>>
    /\ is_running = FALSE /\ ts_segments = <<>> /\ callbacks_set = FALSE
    /\ speaker_map = [x \in {} |-> UNKNOWN] /\ audio_sent = 0
    /\ conversation_history = <<>>
    /\ context \in {[NewContext EXCEPT !.current_stage = stage] : stage \in Stages}
    /\ sentiment_history = <<>>
    /\ db = NewDb
    /\ sent = <<>>
    /\ ready = <<>> /\ draining = FALSE /\ waiting = {}
    /\ end_calls = 0 /\ results = <<>> /\ escaped = "none" /\ analysed = {}
    /\ peer = "absent" /\ observed = <<>>

\* process_transcript from _update_context(analysis) up to the generation
\* request of the flow _generate_contextual_suggestion routes to
apply_routing ==
    /\ analysed = {} /\ waiting = {}
    /\ \E analysis \in RoutingAnalyses :
         LET ctx == update_context(context, analysis)
         IN /\ context' = ctx
            /\ analysed' = {[trigger |-> 0, parses |-> TRUE, analysis |-> analysis]}
            /\ waiting' = {[kind |-> "gen", trigger |-> 0,
                            flow |-> contextual_flow(ctx, analysis),
                            stype |-> contextual_suggestion_type(ctx, analysis)]}
    /\ UNCHANGED <<connVars, sessVars, adapterVars, conversation_history,
                   sentiment_history, db, sent, ready, draining,
                   end_calls, results, escaped, otherVars>>

SpecRouting == InitRouting /\ [][apply_routing]_vars

----------------------------------------------------------------------------
\* websocket_call: the receive loop and the handlers of handle_json_message

\* the loop's websocket.receive() returns a frame of the client
Receives(frame) ==
    /\ pc = "recv" /\ channel = "open" /\ now < MaxMsgs /\ Polling
    /\ now' = now + 1
    /\ last_frame' = frame

\* no exception: the coroutine goes on
NoRaise == UNCHANGED <<loop_exit, escaped>>

\* the handler returns to the receive loop
Return == pc' = "recv" /\ req' = NoReq /\ NoRaise

\* CallSession.send_suggestion, called with the outcome o of its send_json
send_suggestion(sugg, trigger, o) ==
    /\ suggestions' = Append(suggestions, sugg)
    /\ sent' = Emit(SuggestionEvent(sugg, trigger), o)
    /\ db' = IF o = "raise" THEN db ELSE [db EXCEPT !.suggestions = @ + 1]

\* CallSession.end_call up to its first suspension (the summary request), at time t
end_call_begin(t) ==
    /\ is_active' = FALSE
    /\ is_running' = FALSE
    /\ end_calls' = end_calls + 1
    /\ req' = [NoReq EXCEPT
                 !.duration = IF start_time = <<>> THEN 0 ELSE t - start_time[1],
                 !.transcript = get_segments(ts_segments)]
    /\ pc' = "end_summary"

\* "start": CallSession.start up to the request for the opening suggestion
recv_start ==
    /\ Receives("start")
    /\ start_time' = <<now'>>
    /\ is_active' = TRUE
    /\ context' = NewContext
    /\ conversation_history' = <<>>
    /\ pc' = "start_gen"
    /\ NoRaise
    /\ UNCHANGED <<in_cleanup, req, channel, active_sessions,
                   consent_granted, segments, suggestions, adapterVars,
                   sentiment_history, db, sent, loopVars, end_calls, results, analysed>>
    /\ UNCHANGED otherVars

\* CallSession.start from the answer of the reasoning service on
start_opening ==
    /\ pc = "start_gen" /\ Polling
    /\ \E outcome \in GenerationOutcomes, o \in SendOutcomes :
         /\ send_suggestion(generate_suggestion(RAPPORT, outcome), 0, o)
         /\ IF o = "raise"
            THEN Raise("send") /\ UNCHANGED <<callbacks_set, is_running>>
            ELSE /\ callbacks_set' = TRUE
                 /\ is_running' = TRUE
                 /\ Return
    /\ UNCHANGED <<in_cleanup, now, last_frame, channel, active_sessions,
                   is_active, consent_granted, segments, start_time,
                   ts_segments, speaker_map, audio_sent, engineVars,
                   sentiment_history, loopVars, end_calls, results, analysed>>
    /\ UNCHANGED otherVars

\* "consent_granted": CallSession.grant_consent up to the database update
recv_consent_granted ==
    /\ Receives("consent_granted")
    /\ consent_granted' = TRUE
    /\ pc' = "grant_db"
    /\ NoRaise
    /\ UNCHANGED <<in_cleanup, req, channel, active_sessions,
                   is_active, segments, suggestions, start_time, adapterVars,
                   engineVars, sentiment_history, db, sent, loopVars, end_calls, results, analysed>>
    /\ UNCHANGED otherVars

\* "consent_denied": CallSession.deny_consent up to the database update
recv_consent_denied ==
    /\ Receives("consent_denied")
    /\ consent_granted' = FALSE
    /\ pc' = "deny_db"
    /\ NoRaise
    /\ UNCHANGED <<in_cleanup, req, channel, active_sessions,
                   is_active, segments, suggestions, start_time, adapterVars,
                   engineVars, sentiment_history, db, sent, loopVars, end_calls, results, analysed>>
    /\ UNCHANGED otherVars

\* grant_consent / deny_consent from the database's answer on
consent_done ==
    /\ pc \in {"grant_db", "deny_db"} /\ Polling
    /\ \E dbo \in ExchangeOutcomes, o \in SendOutcomes :
         IF dbo = "raise"
         THEN Raise("consent_write") /\ UNCHANGED <<db, sent>>
         ELSE /\ db' = [db EXCEPT !.consent = IF pc = "grant_db" THEN "granted" ELSE "denied"]
              /\ sent' = Emit([type |-> "consent",
                               status |-> IF pc = "grant_db" THEN "granted" ELSE "denied"], o)
              /\ IF o = "raise" THEN Raise("send") ELSE Return
    /\ UNCHANGED <<in_cleanup, now, last_frame, channel, active_sessions, sessVars, adapterVars,
                   engineVars, sentiment_history, loopVars, end_calls, results, analysed>>
    /\ UNCHANGED otherVars

\* a binary frame, or "audio_base64" with a payload that decodes: process_audio
recv_audio ==
    /\ Receives("audio")
    /\ audio_sent' = IF ForwardsAudio(is_active, consent_granted)
                     THEN audio_sent + 1 ELSE audio_sent
    /\ NoRaise
    /\ UNCHANGED <<pc, in_cleanup, req, channel, active_sessions,
                   sessVars, is_running, ts_segments, callbacks_set, speaker_map,
                   engineVars, sentiment_history, db, sent, loopVars, end_calls, results, analysed>>
    /\ UNCHANGED otherVars

\* the frames the loop cannot decode: text that is not JSON (json.loads raises),
\* JSON that is not an object (data.get raises), "audio_base64" whose payload
\* is not base64 (b64decode raises)
MalformedFrames == {"not_json", "not_object", "bad_base64"}

recv_malformed ==
    /\ \E frame \in MalformedFrames : Receives(frame)
    /\ Raise("malformed")
    /\ UNCHANGED <<in_cleanup, channel, active_sessions, sessVars, adapterVars,
                   engineVars, sentiment_history, db, sent, loopVars,
                   end_calls, results, analysed>>
    /\ UNCHANGED otherVars

\* "ping"
recv_ping ==
    /\ Receives("ping")
    /\ \E o \in SendOutcomes :
         /\ sent' = Emit([type |-> "pong"], o)
         /\ IF o = "raise" THEN Raise("send") ELSE UNCHANGED <<pc, req>> /\ NoRaise
    /\ UNCHANGED <<in_cleanup, channel, active_sessions, sessVars, adapterVars,
                   engineVars, sentiment_history, db, loopVars, end_calls, results, analysed>>
    /\ UNCHANGED otherVars

\* a dispatcher that rejects a type it has no branch for: the frame ends the loop
recv_unknown_rejected ==
    /\ Receives("ignored")
    /\ Raise("malformed")
    /\ UNCHANGED <<in_cleanup, channel, active_sessions, sessVars, adapterVars,
                   engineVars, sentiment_history, db, sent, loopVars,
                   end_calls, results, analysed>>
    /\ UNCHANGED otherVars

\* "suggestion_feedback", and every type handle_json_message has no branch for
\* (a missing type too: data.get("type") is None and no branch matches)
recv_ignored ==
    /\ Receives("ignored")
    /\ NoRaise
    /\ UNCHANGED <<pc, in_cleanup, req, channel, active_sessions,
                   sessVars, adapterVars, engineVars, sentiment_history, db, sent,
                   loopVars, end_calls, results, analysed>>
    /\ UNCHANGED otherVars

\* VectorStore.find_matching_product: product_collection.query raises, finds
\* nothing, or finds products
ProductSearchOutcomes == {"raise", "empty", "found"}

\* "request_product": request_product_suggestion up to the generation request
recv_request_product ==
    /\ Receives("request_product")
    /\ \E search \in ProductSearchOutcomes, o \in SendOutcomes :
         CASE search = "raise" ->
                Raise("provider") /\ UNCHANGED <<suggestions, sent, db>>
           [] search = "empty" ->
                /\ send_suggestion(Suggestion(QUESTION, "text", 50), 0, o)
                /\ IF o = "raise" THEN Raise("send") ELSE Return
           [] search = "found" ->
                /\ pc' = "req_gen"
                /\ req' = [NoReq EXCEPT !.stype = PRODUCT_PITCH]
                /\ NoRaise
                /\ UNCHANGED <<suggestions, sent, db>>
    /\ UNCHANGED <<in_cleanup, channel, active_sessions,
                   is_active, consent_granted, segments, start_time, adapterVars,
                   engineVars, sentiment_history, loopVars, end_calls, results, analysed>>
    /\ UNCHANGED otherVars

\* "request_objection_help": request_objection_help up to the generation request
\* (search_objection_handlers answers or its query raises)
recv_request_objection_help ==
    /\ Receives("request_objection_help")
    /\ \E search \in ExchangeOutcomes :
         IF search = "raise"
         THEN Raise("provider")
         ELSE /\ pc' = "req_gen"
              /\ req' = [NoReq EXCEPT !.stype = OBJECTION_HANDLER]
              /\ NoRaise
    /\ UNCHANGED <<in_cleanup, channel, active_sessions, sessVars, adapterVars,
                   engineVars, sentiment_history, db, sent, loopVars, end_calls, results, analysed>>
    /\ UNCHANGED otherVars

\* "request_closing": request_closing_help up to the generation request
recv_request_closing ==
    /\ Receives("request_closing")
    /\ pc' = "req_gen"
    /\ req' = [NoReq EXCEPT !.stype = CLOSING,
                            !.transcript = get_segments(ts_segments)]
    /\ NoRaise
    /\ UNCHANGED <<in_cleanup, channel, active_sessions, sessVars, adapterVars,
                   engineVars, sentiment_history, db, sent, loopVars, end_calls, results, analysed>>
    /\ UNCHANGED otherVars

\* the three request handlers from the answer of _generate_suggestion on
request_done ==
    /\ pc = "req_gen" /\ Polling
    /\ \E outcome \in GenerationOutcomes, o \in SendOutcomes :
         /\ send_suggestion(generate_suggestion(req.stype, outcome), 0, o)
         /\ IF o = "raise" THEN Raise("send") ELSE Return
    /\ UNCHANGED <<in_cleanup, now, last_frame, channel, active_sessions,
                   is_active, consent_granted, segments, start_time, adapterVars,
                   engineVars, sentiment_history, loopVars, end_calls, results, analysed>>
    /\ UNCHANGED otherVars

\* "request_discovery": CallSession.get_discovery_questions up to the request
recv_request_discovery ==
    /\ Receives("request_discovery")
    /\ pc' = "discovery_gen"
    /\ req' = [NoReq EXCEPT !.transcript = get_segments(ts_segments)]
    /\ NoRaise
    /\ UNCHANGED <<in_cleanup, channel, active_sessions, sessVars, adapterVars,
                   engineVars, sentiment_history, db, sent, loopVars, end_calls, results, analysed>>
    /\ UNCHANGED otherVars

\* get_discovery_questions keeps at most this many questions of the answer
QuestionsLimit == 3

\* the answers of the reasoning service to get_discovery_questions: JSON with
\* some number of questions, or text that does not parse
DiscoveryAnswers == {[parses |-> TRUE, questions |-> n] : n \in 0..QuestionsLimit}
                    \cup {[parses |-> FALSE, questions |-> 0]}

\* get_discovery_questions: the suggestions returned for an answer
discovery_suggestions(answer) ==
    IF answer.parses THEN [k \in 1..answer.questions |-> Suggestion(QUESTION, "text", 80)]
    ELSE <<Suggestion(QUESTION, "text", 60)>>

\* get_discovery_questions from the answer of the reasoning service on: one
\* send_suggestion per question
discovery_done ==
    /\ pc = "discovery_gen" /\ Polling
    /\ \E outcome \in ExchangeOutcomes, answer \in DiscoveryAnswers, o \in SendOutcomes :
         IF outcome = "raise"
         THEN Raise("provider") /\ UNCHANGED <<suggestions, sent, db>>
         ELSE LET found == discovery_suggestions(answer)
                  n == Len(found)
                  \* a send that raises ends the handler at the first suggestion
                  m == IF o = "raise" /\ n > 0 THEN 1 ELSE n
              IN /\ suggestions' = suggestions \o SubSeq(found, 1, m)
                 /\ sent' = IF o = "sent"
                            THEN sent \o [k \in 1..n |-> SuggestionEvent(found[k], 0)]
                            ELSE sent
                 /\ db' = IF o = "raise" THEN db
                          ELSE [db EXCEPT !.suggestions = @ + n]
                 /\ IF o = "raise" /\ n > 0 THEN Raise("send") ELSE Return
    /\ UNCHANGED <<in_cleanup, now, last_frame, channel, active_sessions,
                   is_active, consent_granted, segments, start_time, adapterVars,
                   engineVars, sentiment_history, loopVars, end_calls, results, analysed>>
    /\ UNCHANGED otherVars

\* "end": CallSession.end_call up to the summary request
recv_end ==
    /\ Receives("end")
    /\ end_call_begin(now')
    /\ NoRaise
    /\ UNCHANGED <<in_cleanup, channel, active_sessions,
                   consent_granted, segments, suggestions, start_time,
                   ts_segments, callbacks_set, speaker_map, audio_sent,
                   engineVars, sentiment_history, db, sent, loopVars, results, analysed>>
    /\ UNCHANGED otherVars

\* the answers of the reasoning service to generate_call_summary
SummaryOutcomes == {"ok", "malformed", "raise"}

\* end_call from the summary on: talk ratio, the transcript record, up to the update
end_call_summary ==
    /\ pc = "end_summary" /\ Polling
    /\ \E outcome \in SummaryOutcomes :
         IF outcome = "raise"
         THEN Raise("provider") /\ UNCHANGED db
         ELSE /\ req' = [req EXCEPT
                          !.summary = IF outcome = "ok" THEN "summary" ELSE "unavailable",
                          !.talk_ratio = calculate_talk_ratio(segments)]
              /\ db' = [db EXCEPT !.transcripts = @ + 1]
              /\ pc' = "end_exec"
              /\ NoRaise
    /\ UNCHANGED <<in_cleanup, now, last_frame, channel, active_sessions, sessVars, adapterVars,
                   engineVars, sentiment_history, sent, loopVars, end_calls, results, analysed>>
    /\ UNCHANGED otherVars

\* end_call: the update of the call row, up to the commit
end_call_update ==
    /\ pc = "end_exec" /\ Polling
    /\ \E dbo \in ExchangeOutcomes :
         IF dbo = "raise"
         THEN Raise("end_write") /\ UNCHANGED db
         ELSE /\ db' = [db EXCEPT !.status = "completed", !.ended_at = <<now>>,
                                  !.duration = <<req.duration>>]
              /\ pc' = "end_commit"
              /\ UNCHANGED req
              /\ NoRaise
    /\ UNCHANGED <<in_cleanup, now, last_frame, channel, active_sessions, sessVars, adapterVars,
                   engineVars, sentiment_history, sent, loopVars, end_calls, results, analysed>>
    /\ UNCHANGED otherVars

\* the result end_call composes
end_call_result ==
    [duration_seconds |-> req.duration, summary |-> req.summary,
     talk_ratio |-> req.talk_ratio,
     sentiment_timeline |-> sentiment_history,
     suggestions_count |-> Len(suggestions)]

\* end_call from the commit on: the result, the call_ended event, the return;
\* in the finally block the registry entry is deleted after the return
end_call_finish ==
    /\ pc = "end_commit" /\ Polling
    /\ \E dbo \in ExchangeOutcomes, o \in SendOutcomes :
         IF dbo = "raise"
         THEN Raise("end_write") /\ UNCHANGED <<db, sent, results, active_sessions>>
         ELSE /\ db' = [db EXCEPT !.commits = @ + 1]
              /\ sent' = Emit([type |-> "call_ended", data |-> end_call_result], o)
              /\ IF o = "raise"
                 THEN Raise("send") /\ UNCHANGED <<results, active_sessions>>
                 ELSE /\ results' = Append(results, end_call_result)
                      /\ req' = NoReq
                      /\ pc' = IF in_cleanup THEN "done" ELSE "recv"
                      /\ active_sessions' = IF in_cleanup THEN registry_del(active_sessions, CallId)
                                            ELSE active_sessions
                      \* del raises KeyError when the entry has gone meanwhile
                      /\ escaped' = IF in_cleanup /\ ~Registered(CallId)
                                    THEN "key_error" ELSE escaped
                      /\ UNCHANGED loop_exit
    /\ UNCHANGED <<in_cleanup, now, last_frame, channel, sessVars, adapterVars,
                   engineVars, sentiment_history, loopVars, end_calls, analysed>>
    /\ UNCHANGED otherVars

\* the client goes away
client_close ==
    /\ channel = "open" /\ pc # "done" /\ Polling
    /\ channel' = "closed"
    /\ UNCHANGED <<pc, in_cleanup, req, now, last_frame, active_sessions, loop_exit,
                   sessVars, adapterVars, engineVars, sentiment_history, db, sent,
                   loopVars, histVars>>
    /\ UNCHANGED otherVars

\* websocket.receive() reports the disconnect: the loop ends
recv_disconnect ==
    /\ pc = "recv" /\ channel = "closed" /\ Polling
    /\ pc' = "finally"
    /\ loop_exit' = "disconnect"
    /\ UNCHANGED <<in_cleanup, req, now, last_frame, channel, active_sessions,
                   sessVars, adapterVars, engineVars, sentiment_history, db, sent,
                   loopVars, histVars>>
    /\ UNCHANGED otherVars

\* websocket_call's finally block, up to end_call's first suspension
cleanup ==
    /\ pc = "finally"
    /\ IF Registered(CallId) /\ is_active
       THEN /\ end_call_begin(now)
            /\ in_cleanup' = TRUE
            /\ UNCHANGED active_sessions
       ELSE /\ active_sessions' = registry_del(active_sessions, CallId)
            /\ pc' = "done"
            /\ UNCHANGED <<in_cleanup, req, is_active, is_running, end_calls>>
    /\ UNCHANGED <<now, last_frame, channel, loop_exit, consent_granted, segments, suggestions,
                   start_time, ts_segments, callbacks_set, speaker_map, audio_sent,
                   engineVars, sentiment_history, db, sent, loopVars,
                   results, escaped, analysed>>
    /\ UNCHANGED otherVars

----------------------------------------------------------------------------
\* The transcription adapter and the tasks it creates

\* what the provider may report in one result: the channel of its first word
\* (or none), whether it is final, its duration
ProviderResults ==
    [speaker_id : SpeakerIds \cup {NoSpeaker}, is_final : BOOLEAN, dur : Durations]

\* the task asyncio.create_task(self._async_callback(segment)) makes
TranscriptTask(seg) == [kind |-> "on_transcript", seg |-> seg]

\* the task asyncio.create_task(self._trigger_suggestion(transcript, speaker)) makes
SuggestionTask(seg) == [kind |-> "on_suggestion_needed", seg |-> seg]

\* an adapter that asks for the suggestion before it delivers the segment
tasks_created_suggestion_first(seg) ==
    (IF seg.is_final /\ seg.speaker = PROSPECT THEN <<SuggestionTask(seg)>> ELSE <<>>)
    \o <<TranscriptTask(seg)>>

\* DeepgramTranscriptionService._on_transcript: the tasks created for a segment
tasks_created(seg) ==
    <<TranscriptTask(seg)>> \o
    (IF seg.is_final /\ seg.speaker = PROSPECT THEN <<SuggestionTask(seg)>> ELSE <<>>)

\* a scheduler that runs the newest tasks first
enqueue_front(queue, tasks) == tasks \o queue

\* a scheduler that starts the on_transcript tasks before the others
enqueue_transcripts_first(queue, tasks) ==
    SelectSeq(queue \o tasks, LAMBDA t : t.kind = "on_transcript")
    \o SelectSeq(queue \o tasks, LAMBDA t : t.kind # "on_transcript")

\* asyncio.create_task: the new tasks join the loop's ready queue at its end
enqueue(queue, tasks) == queue \o tasks

\* DeepgramTranscriptionService._on_transcript, called by the provider's client
\* for a result of the stream start_stream opened, the result being one of
\* reported and fewer than limit having come; results keep increasing start
\* times (the arrival index stands for start_time and for the text)
adapter_reports(reported, limit) ==
    /\ callbacks_set /\ Len(ts_segments) < limit /\ Polling
    /\ \E r \in reported :
         LET seg == [id |-> Len(ts_segments) + 1,
                     speaker |-> identify_speaker(speaker_map, r.speaker_id),
                     is_final |-> r.is_final, dur |-> r.dur]
         IN /\ speaker_map' = identify_speaker_map(speaker_map, r.speaker_id)
            /\ ts_segments' = Append(ts_segments, seg)
            /\ ready' = enqueue(ready, tasks_created(seg))
    /\ UNCHANGED <<connVars, sessVars, is_running, callbacks_set, audio_sent,
                   engineVars, sentiment_history, db, sent, draining, waiting, histVars>>
    /\ UNCHANGED otherVars

\* _on_transcript for any result of the provider
adapter_on_transcript == adapter_reports(ProviderResults, MaxSegments)

\* the final results of diarized speech
FinalResults == {r \in ProviderResults : r.is_final /\ r.speaker_id # NoSpeaker}

\* _on_transcript for a final result: the provider reports whole utterances
adapter_on_utterance == adapter_reports(FinalResults, MaxUtterances)

\* the loop runs the next task of the ready queue
Runs(kind) ==
    /\ ready # <<>> /\ Head(ready).kind = kind /\ pc # "finally"
    /\ ready' = Tail(ready)
    /\ draining' = (Tail(ready) # <<>>)

\* CallSession.on_transcript up to the sentiment request (or its end)
on_transcript ==
    /\ Runs("on_transcript")
    /\ LET seg == Head(ready).seg
       IN /\ segments' = Append(segments, seg)
          /\ \E o \in SendOutcomes :
               /\ sent' = Emit([type |-> "transcript", seg |-> seg.id], o)
               /\ waiting' = IF o # "raise" /\ seg.speaker = PROSPECT /\ seg.is_final
                             THEN waiting \cup {[kind |-> "sentiment", seg |-> seg,
                                                 trigger |-> seg.id]}
                             ELSE waiting
    /\ UNCHANGED <<connVars, is_active, consent_granted, suggestions, start_time,
                   adapterVars, engineVars, sentiment_history, db, histVars>>
    /\ UNCHANGED otherVars

\* the signals given to the session's on_suggestion_needed directly
Signals == SelectSeq(observed, LAMBDA e : e.op = "signal")

\* the on_suggestion_needed callback given to start_stream is called for a
\* prospect utterance whose segment is not delivered to on_transcript: the
\* task of _trigger_suggestion alone joins the ready queue
signal_suggestion_needed ==
    /\ callbacks_set /\ Polling /\ Len(Signals) < MaxSignals
    /\ observed' = Append(observed,
           [op |-> "signal", speaker_id |-> NoSpeaker, speaker |-> PROSPECT])
    /\ ready' = enqueue(ready,
           <<SuggestionTask([id |-> 0, speaker |-> PROSPECT, is_final |-> TRUE, dur |-> 1])>>)
    /\ UNCHANGED <<connVars, sessVars, adapterVars, engineVars, sentiment_history,
                   db, sent, draining, waiting, histVars, peer>>

\* an on_suggestion_needed without the check of the history: with no segment
\* it hands the signalled utterance to the engine
on_suggestion_needed_unchecked ==
    /\ Runs("on_suggestion_needed")
    /\ LET latest == IF segments = <<>> THEN Head(ready).seg
                     ELSE segments[Len(segments)]
       IN /\ conversation_history' = Append(conversation_history,
                [role |-> IF latest.speaker = PROSPECT THEN PROSPECT ELSE SALESPERSON,
                 content |-> latest.id])
          /\ waiting' = IF latest.speaker = PROSPECT /\ latest.is_final
                        THEN waiting \cup
                             {[kind |-> "analysis", seg |-> latest,
                               trigger |-> Head(ready).seg.id,
                               transcript |-> get_segments(ts_segments)]}
                        ELSE waiting
    /\ UNCHANGED <<connVars, sessVars, adapterVars, context, sentiment_history,
                   db, sent, histVars>>
    /\ UNCHANGED otherVars

\* CallSession.on_suggestion_needed and AICoachingEngine.process_transcript up
\* to the analysis request (or their end)
on_suggestion_needed ==
    /\ Runs("on_suggestion_needed")
    /\ IF segments = <<>>
       THEN UNCHANGED <<conversation_history, waiting>>
       ELSE LET latest == segments[Len(segments)]
            IN /\ conversation_history' = Append(conversation_history,
                     [role |-> IF latest.speaker = PROSPECT THEN PROSPECT ELSE SALESPERSON,
                      content |-> latest.id])
               /\ waiting' = IF latest.speaker = PROSPECT /\ latest.is_final
                             THEN waiting \cup
                                  {[kind |-> "analysis", seg |-> latest,
                                    trigger |-> Head(ready).seg.id,
                                    transcript |-> get_segments(ts_segments)]}
                             ELSE waiting
    /\ UNCHANGED <<connVars, sessVars, adapterVars, context, sentiment_history,
                   db, sent, histVars>>
    /\ UNCHANGED otherVars

\* SentimentAnalyzer.analyze_sentiment from the classifier's answer on, and the
\* rest of on_transcript
sentiment_done ==
    /\ Polling
    /\ \E t \in waiting, outcome \in SummaryOutcomes, o \in SendOutcomes :
         /\ t.kind = "sentiment"
         /\ waiting' = waiting \ {t}
         /\ sentiment_history' = IF outcome = "ok"
                                 THEN Append(sentiment_history, [timestamp |-> t.seg.id])
                                 ELSE sentiment_history
         /\ sent' = IF outcome = "raise" THEN sent
                    ELSE Emit([type |-> "sentiment", timestamp |-> t.seg.id], o)
    /\ UNCHANGED <<connVars, sessVars, adapterVars, engineVars, db, ready, draining,
                   histVars>>
    /\ UNCHANGED otherVars

\* process_transcript from the answer to _analyze_statement on, up to the
\* generation request of the flow it routes to
analysis_done ==
    /\ Polling
    /\ \E t \in waiting, outcome \in ExchangeOutcomes, answer \in AnalysisAnswers,
          search \in ExchangeOutcomes :
         /\ t.kind = "analysis"
         /\ IF outcome = "raise"
            THEN waiting' = waiting \ {t} /\ UNCHANGED <<context, analysed>>
            ELSE LET analysis == analyze_statement(answer)
                     ctx == update_context(context, analysis)
                 IN /\ context' = ctx
                    /\ analysed' = analysed \cup
                         {[trigger |-> t.trigger, parses |-> answer.parses,
                           analysis |-> analysis]}
                    /\ waiting' =
                         IF SearchesVectorStore(analysis) /\ search = "raise"
                         THEN waiting \ {t}
                         ELSE (waiting \ {t}) \cup
                              {[kind |-> "gen", trigger |-> t.trigger,
                                flow |-> contextual_flow(ctx, analysis),
                                stype |-> contextual_suggestion_type(ctx, analysis)]}
    /\ UNCHANGED <<connVars, sessVars, adapterVars, conversation_history,
                   sentiment_history, db, sent, ready, draining,
                   end_calls, results, escaped>>
    /\ UNCHANGED otherVars

\* _generate_suggestion's answer for the dispatched flow, and the rest of
\* on_suggestion_needed: send_suggestion
suggestion_done ==
    /\ Polling
    /\ \E t \in waiting, outcome \in GenerationOutcomes, o \in SendOutcomes :
         /\ t.kind = "gen"
         /\ waiting' = waiting \ {t}
         /\ send_suggestion(generate_suggestion(t.stype, outcome), t.trigger, o)
    /\ UNCHANGED <<connVars, is_active, consent_granted, segments, start_time,
                   adapterVars, engineVars, sentiment_history, ready, draining, histVars>>
    /\ UNCHANGED otherVars

----------------------------------------------------------------------------
\* Specifications.  Both start from a fresh connection; they differ in what
\* the environment does.

\* the client protocol: every frame a client can send, in any order, with every
\* outcome of the services and of the database; the provider reports nothing
\* the whole protocol: every kind of frame, the client going away, the
\* finally block
AnyFrame == now < MaxProtocolMsgs

NextProtocol ==
    \/ (AnyFrame /\ recv_start) \/ start_opening
    \/ (AnyFrame /\ recv_consent_granted) \/ (AnyFrame /\ recv_consent_denied)
    \/ consent_done
    \/ (AnyFrame /\ recv_audio) \/ (AnyFrame /\ recv_malformed)
    \/ (AnyFrame /\ recv_ping) \/ (AnyFrame /\ recv_ignored)
    \/ (AnyFrame /\ recv_request_product) \/ (AnyFrame /\ recv_request_objection_help)
    \/ (AnyFrame /\ recv_request_closing)
    \/ request_done \/ (AnyFrame /\ recv_request_discovery) \/ discovery_done
    \/ (AnyFrame /\ recv_end) \/ end_call_summary \/ end_call_update \/ end_call_finish
    \/ client_close \/ recv_disconnect \/ cleanup

SpecProtocol == Init /\ [][NextProtocol]_vars

\* the transcript stream: the client has started the call (once) and keeps the
\* connection open while the provider reports results and the tasks made for
\* them run, with every outcome of the services
FirstStart == start_time = <<>>

NextStream ==
    \/ (FirstStart /\ recv_start) \/ start_opening
    \/ adapter_on_transcript \/ on_transcript \/ on_suggestion_needed
    \/ sentiment_done \/ analysis_done \/ suggestion_done

SpecStream == Init /\ [][NextStream]_vars

\* websocket_call of another connection to the same call id, up to its
\* receive loop: it registers its own session
peer_open ==
    /\ peer = "absent" /\ Polling
    /\ peer' = "open"
    /\ active_sessions' = registry_put(active_sessions, CallId, PeerConn)
    /\ UNCHANGED <<pc, in_cleanup, req, now, last_frame, channel, loop_exit,
                   sessVars, adapterVars, engineVars, sentiment_history, db, sent,
                   loopVars, histVars, observed>>

\* the other connection's client goes away before it has started its call:
\* the finally block of its websocket_call
peer_close ==
    /\ peer = "open" /\ Polling
    /\ peer' = "closed"
    /\ active_sessions' = IF Registered(CallId) THEN registry_del(active_sessions, CallId)
                          ELSE active_sessions
    /\ UNCHANGED <<pc, in_cleanup, req, now, last_frame, channel, loop_exit,
                   sessVars, adapterVars, engineVars, sentiment_history, db, sent,
                   loopVars, histVars, observed>>

\* two connections to one call id: each opens and closes, the first may
\* start its call
NextRegistry ==
    \/ (FirstStart /\ recv_start) \/ start_opening
    \/ client_close \/ recv_disconnect \/ cleanup
    \/ end_call_summary \/ end_call_update \/ end_call_finish
    \/ peer_open \/ peer_close

SpecRegistry == Init /\ [][NextRegistry]_vars

\* the transcript stream of a call the client starts once and ends once
FirstEnd == end_calls = 0

NextStreamEnd ==
    \/ (FirstStart /\ recv_start) \/ start_opening
    \/ adapter_on_transcript \/ on_transcript \/ on_suggestion_needed
    \/ sentiment_done \/ analysis_done \/ suggestion_done
    \/ (FirstEnd /\ recv_end) \/ end_call_summary \/ end_call_update \/ end_call_finish

SpecStreamEnd == Init /\ [][NextStreamEnd]_vars

\* a conversation: the client has started the call (once), the provider
\* reports whole utterances of the two parties, and the tasks made for them
\* run with every outcome of the services
NextConversation ==
    \/ (FirstStart /\ recv_start) \/ start_opening
    \/ adapter_on_utterance \/ on_transcript \/ on_suggestion_needed
    \/ sentiment_done \/ analysis_done \/ suggestion_done

SpecConversation == Init /\ [][NextConversation]_vars

\* the arrival of segments: the provider reports results of any kind and then
\* whole utterances, while the tasks made for earlier ones start (up to the
\* requests they make)
NextArrival ==
    \/ (FirstStart /\ recv_start) \/ start_opening
    \/ adapter_on_transcript \/ adapter_on_utterance
    \/ on_transcript \/ on_suggestion_needed

SpecArrival == Init /\ [][NextArrival]_vars

\* the stream up to the requests its tasks make, with suggestion-needed
\* signals that come without a segment
NextSignal ==
    \/ (FirstStart /\ recv_start) \/ start_opening
    \/ adapter_on_transcript \/ signal_suggestion_needed
    \/ on_transcript \/ on_suggestion_needed

SpecSignal == Init /\ [][NextSignal]_vars

\* the audio path: the client starts and ends the call, grants and denies
\* consent and sends audio frames, in any order, and stays connected
NextAudio ==
    \/ recv_start \/ start_opening
    \/ recv_consent_granted \/ recv_consent_denied \/ consent_done
    \/ recv_audio
    \/ recv_end \/ end_call_summary \/ end_call_update \/ end_call_finish

\* the explicit requests: the client starts the call (once) and asks for
\* suggestions, in any order, with every outcome of the services
NextRequests ==
    \/ (FirstStart /\ recv_start) \/ start_opening
    \/ recv_request_product \/ recv_request_objection_help \/ recv_request_closing
    \/ request_done \/ recv_request_discovery \/ discovery_done

SpecRequests == Init /\ [][NextRequests]_vars

SpecAudio == Init /\ [][NextAudio]_vars

\* the same connection with what the code's scheduling guarantees: a
\* database round trip comes back (with a result or an exception) and the
\* coroutine goes on.  The answers of the reasoning service get no fairness:
\* no await on it is wrapped in a timeout (asyncio.wait_for, a timeout
\* argument), so a request that is never answered leaves its coroutine
\* suspended for good.
SpecBoundedWait ==
    /\ Init /\ [][NextAudio]_vars
    /\ WF_vars(consent_done) /\ WF_vars(end_call_update) /\ WF_vars(end_call_finish)

----------------------------------------------------------------------------
\* Observations the properties are stated on

IsTranscriptEvent(e) == e.type = "transcript"
IsSuggestionEvent(e) == e.type = "suggestion"
IsCallEnded(e) == e.type = "call_ended"

\* the segment ids of the transcript events sent, in the order sent
TranscriptIdsOf(events) ==
    LET transcripts == SelectSeq(events, IsTranscriptEvent)
    IN [i \in 1..Len(transcripts) |-> transcripts[i].seg]

TranscriptIds == TranscriptIdsOf(sent)

\* the suggestion events the automatic dispatch has sent for utterance id
DispatchedFor(id) ==
    {k \in 1..Len(sent) : sent[k].type = "suggestion" /\ sent[k].trigger = id}

\* the automatic dispatch for utterance id is still to run or in progress
DispatchPending(id) ==
    \/ \E k \in 1..Len(ready) :
          ready[k].kind = "on_suggestion_needed" /\ ready[k].seg.id = id
    \/ \E t \in waiting : t.kind \in {"analysis", "gen"} /\ t.trigger = id

CallEndedCount(events) == Len(SelectSeq(events, IsCallEnded))

----------------------------------------------------------------------------
\* Properties

\* C1: process_audio calls send_audio only when consent is granted at that
\* moment; a frame received while consent is not granted forwards nothing,
\* sends nothing to the client and leaves the receive loop waiting for the
\* next frame.
C1_ConsentGate ==
    [][ /\ (audio_sent' # audio_sent => consent_granted)
        /\ (now' # now /\ last_frame' = "audio" /\ ~consent_granted
              => /\ audio_sent' = audio_sent
                 /\ sent' = sent
                 /\ pc' = "recv" /\ loop_exit' = "none" /\ escaped' = "none") ]_vars

\* a frame has been forwarded to the adapter, consent being granted
C1_Witness == last_frame = "audio" /\ audio_sent = 1 /\ consent_granted

\* C2: once end_call has been processed the session is never active again.
C2_EndedIsTerminal == end_calls > 0 => ~is_active

\* C3: once end_call has returned, a further end_call returns the same result
\* and changes nothing persisted: no transcript record is added, the call
\* row's end time and duration stay, no further call_ended event is sent.
C3_EndIdempotent ==
    [][ Len(results) >= 1
          => /\ db'.transcripts = db.transcripts
             /\ db'.ended_at = db.ended_at
             /\ db'.duration = db.duration
             /\ CallEndedCount(sent') = CallEndedCount(sent)
             /\ (Len(results') > Len(results)
                   => results'[Len(results')] = results[1]) ]_vars

\* C4: when websocket_call is over, the session is not active and the
\* registry holds no entry for the call id, on every path.
C4_ConnectionLoss ==
    pc = "done" => ~is_active /\ ~Registered(CallId)

\* C8: a failure of the reasoning or search service never ends the receive
\* loop and never leaves websocket_call as an exception.
C8_ProviderFailureRecovered ==
    loop_exit # "provider" /\ escaped # "provider"

\* C9: a frame that does not decode never ends the receive loop.
C9_MalformedFrameKeepsLoop ==
    loop_exit \notin MalformedFrames \cup {"malformed"}

\* C10: a failure of the end-of-call database write never leaves end_call as
\* an exception (end_call goes on to return its result and send call_ended).
C10_EndSurvivesWriteFailure ==
    loop_exit # "end_write" /\ escaped # "end_write"

\* C5: the transcript events are sent in the adapter's arrival order: the
\* segment ids (start times) of the events sent are the first arrivals, in order.
C5_TranscriptOrder ==
    LET ids == TranscriptIds
    IN /\ Len(ids) <= Len(ts_segments)
       /\ \A i \in 1..Len(ids) : ids[i] = ts_segments[i].id
       /\ \A i, j \in 1..Len(ids) : i < j => ids[i] < ids[j]

\* two segments have been reported and both transcript events are out
C5_Witness == Len(TranscriptIds) >= 2

\* C6: every final prospect segment gets exactly one suggestion event from the
\* automatic dispatch: never more than one, and one once its dispatch is over.
C6_ExactlyOneSuggestion ==
    \A i \in 1..Len(ts_segments) :
        LET seg == ts_segments[i]
        IN seg.is_final /\ seg.speaker = PROSPECT
             => /\ Cardinality(DispatchedFor(seg.id)) <= 1
                /\ (~DispatchPending(seg.id) => Cardinality(DispatchedFor(seg.id)) = 1)

\* the classification the dispatch falls back to when the analysis does not parse
IsDefaultClassification(a) ==
    /\ a.intent = "statement" /\ a.sentiment = "neutral"
    /\ a.urgency = "medium" /\ a.stage = "discovery"

\* C7 as claimed: an analysis that does not parse is replaced by the default
\* classification and the utterance gets exactly one suggestion, question-typed.
C7_MalformedAnalysisQuestion ==
    \A a \in analysed :
        ~a.parses
          => /\ IsDefaultClassification(a.analysis)
             /\ Cardinality(DispatchedFor(a.trigger)) <= 1
             /\ (~DispatchPending(a.trigger)
                   => Cardinality(DispatchedFor(a.trigger)) = 1)
             /\ \A k \in DispatchedFor(a.trigger) : sent[k].stype = QUESTION

\* C7 as amended: an analysis that does not parse is replaced by the default
\* classification, the continuation flow asks for a question-typed suggestion,
\* and the utterance gets exactly one suggestion: that question when the
\* generation call answers, the response-typed "Continue listening" fallback
\* (confidence 0.3) when the generation call raises.
C7_MalformedAnalysisFallback ==
    \A a \in analysed :
        ~a.parses
          => /\ IsDefaultClassification(a.analysis)
             /\ \A t \in waiting :
                   t.kind = "gen" /\ t.trigger = a.trigger => t.stype = QUESTION
             /\ Cardinality(DispatchedFor(a.trigger)) <= 1
             /\ (~DispatchPending(a.trigger)
                   => Cardinality(DispatchedFor(a.trigger)) = 1)
             /\ \A k \in DispatchedFor(a.trigger) :
                   \/ sent[k].stype = QUESTION /\ sent[k].confidence = 85
                   \/ sent[k].stype = RESPONSE /\ sent[k].confidence = 30

\* the dispatch of an utterance whose analysis did not parse has sent its suggestion
C7_Witness ==
    \E a \in analysed : ~a.parses /\ DispatchedFor(a.trigger) # {}

\* the status of the consent events sent to the client, in order
RECURSIVE ConsentStatuses(_)
ConsentStatuses(events) ==
    IF events = <<>> THEN <<>>
    ELSE (IF Head(events).type = "consent" THEN <<Head(events).status>> ELSE <<>>)
         \o ConsentStatuses(Tail(events))

\* the consent the client has been told last: "granted", "denied", or "none"
LastConsent ==
    LET st == ConsentStatuses(sent)
    IN IF st = <<>> THEN "none" ELSE st[Len(st)]

\* an audio frame is received in this step
AudioFrameStep == now' # now /\ last_frame' = "audio"

C12_LifecycleGate ==
    [][ audio_sent' # audio_sent => start_time # <<>> /\ end_calls = 0 ]_vars

\* observed[i] is the resolution of a channel id
IsResolution(i) == observed[i].op = "resolve" /\ observed[i].speaker_id # NoSpeaker

\* the resolver has not been calibrated
NoCalibration == \A i \in 1..Len(observed) : observed[i].op = "resolve"

\* the distinct channel ids resolved up to call i
IdsResolvedBy(i) == {observed[j].speaker_id : j \in {k \in 1..i : IsResolution(k)}}

\* the call at which the id of resolution i was first resolved
FirstResolution(i) ==
    CHOOSE j \in 1..i :
        /\ IsResolution(j) /\ observed[j].speaker_id = observed[i].speaker_id
        /\ \A k \in 1..(j - 1) :
              ~(IsResolution(k) /\ observed[k].speaker_id = observed[i].speaker_id)

\* the role the policy gives the n-th distinct id
RoleOfRank(n) == IF n = 1 THEN SALESPERSON ELSE IF n = 2 THEN PROSPECT ELSE UNKNOWN

\* C13: on a new resolver that is never calibrated, every resolution of the
\* first distinct channel id returns salesperson, every resolution of the
\* second distinct id returns prospect, and every resolution of any further
\* id returns unknown.
C13_SpeakerHeuristic ==
    NoCalibration =>
        \A i \in 1..Len(observed) :
            IsResolution(i) =>
                observed[i].speaker =
                    RoleOfRank(Cardinality(IdsResolvedBy(FirstResolution(i))))

\* three distinct ids have been resolved, one of them more than once
C13_Witness ==
    /\ NoCalibration /\ Len(observed) = 4
    /\ \A i \in 1..4 : IsResolution(i)
    /\ Cardinality(IdsResolvedBy(4)) = 3

\* the last calibration of id among the calls, or 0
LastCalibration(id) ==
    LET cs == {i \in 1..Len(observed) :
                  observed[i].op = "calibrate" /\ observed[i].speaker_id = id}
    IN IF cs = {} THEN 0 ELSE CHOOSE c \in cs : \A d \in cs : d <= c

\* C14: once an id is calibrated, every later resolution of that id returns
\* the role of its latest calibration, whatever ids are resolved in between,
\* and the id would resolve to that role now.
C14_CalibrationPrecedence ==
    \A id \in ChannelIds :
        LET c == LastCalibration(id)
        IN c > 0 =>
             /\ \A i \in (c + 1)..Len(observed) :
                   IsResolution(i) /\ observed[i].speaker_id = id
                     => observed[i].speaker = observed[c].speaker
             /\ identify_speaker(speaker_map, id) = observed[c].speaker

\* an id was calibrated, another id was resolved, then the calibrated id was
\* resolved against what the heuristic alone would have said
C14_Witness ==
    \E c, j, k \in 1..Len(observed) :
        /\ c < j /\ j < k
        /\ observed[c].op = "calibrate" /\ LastCalibration(observed[c].speaker_id) = c
        /\ IsResolution(j) /\ observed[j].speaker_id # observed[c].speaker_id
        /\ IsResolution(k) /\ observed[k].speaker_id = observed[c].speaker_id
        /\ observed[c].speaker = PROSPECT /\ c = 1

\* the segments of a list that count for the talk ratio
IsPartySegment(seg) == seg.speaker \in {SALESPERSON, PROSPECT}

\* no party has spoken for any time in the list
NoTalkTime(segs) ==
    \A i \in 1..Len(segs) : IsPartySegment(segs[i]) => segs[i].dur = 0

\* C15: the two ratios calculate_talk_ratio returns are each in [0,1] and add
\* up to exactly 1 when the parties' time is positive, are both 0 when it is
\* 0, and do not depend on the segments of unknown speakers.
C15_TalkRatioPartition ==
    req.talk_ratio # <<>> =>
        LET s == req.talk_ratio.salesperson
            p == req.talk_ratio.prospect
        IN /\ s[2] > 0 /\ p[2] > 0
           /\ 0 <= s[1] /\ s[1] <= s[2] /\ 0 <= p[1] /\ p[1] <= p[2]
           /\ (NoTalkTime(segments) => s[1] = 0 /\ p[1] = 0)
           /\ (~NoTalkTime(segments) => s[2] = p[2] /\ s[1] + p[1] = s[2])
           /\ req.talk_ratio = calculate_talk_ratio(SelectSeq(segments, IsPartySegment))

\* both parties and an unknown speaker have talked: one third against two thirds
C15_Witness ==
    /\ req.talk_ratio # <<>>
    /\ req.talk_ratio.salesperson = <<1, 3>> /\ req.talk_ratio.prospect = <<2, 3>>
    /\ \E i \in 1..Len(segments) : segments[i].speaker = UNKNOWN /\ segments[i].dur > 0

\* the analysis of the scenario: an objection about the price
IsPriceObjection(a) ==
    a.parses /\ a.analysis.intent = "objection" /\ a.analysis.topics = <<"price">>

\* C16: when the analysis of a final prospect segment is an objection with
\* topics ["price"], the context's objections_raised contains "price" and the
\* utterance gets exactly one suggestion, of kind objection_handler.
C16_ObjectionDispatch ==
    \A a \in analysed :
        IsPriceObjection(a)
          => /\ \E i \in 1..Len(context.objections_raised) :
                   context.objections_raised[i] = "price"
             /\ Cardinality(DispatchedFor(a.trigger)) <= 1
             /\ (~DispatchPending(a.trigger)
                   => Cardinality(DispatchedFor(a.trigger)) = 1)
             /\ \A k \in DispatchedFor(a.trigger) : sent[k].stype = OBJECTION_HANDLER

\* the suggestion events sent that no utterance triggered: in a call started
\* once with no client request, the opening suggestions
OpeningEvents ==
    {k \in 1..Len(sent) : sent[k].type = "suggestion" /\ sent[k].trigger = 0}

\* start has been called and has returned
Started == start_time # <<>> /\ pc # "start_gen"

\* C17 as claimed: start on a new session emits exactly one suggestion, of kind
\* rapport, with non-empty content and confidence > 0, whatever the reasoning
\* service does.
C17_OpeningRapport ==
    /\ (pc = "start_gen" => OpeningEvents = {})
    /\ (Started =>
          /\ Cardinality(OpeningEvents) = 1
          /\ \A k \in OpeningEvents :
                sent[k].stype = RAPPORT /\ sent[k].content # "" /\ sent[k].confidence > 0)

\* C17 as amended: start on a new session emits exactly one suggestion, with
\* confidence > 0: of kind rapport (confidence 0.85) with the service's
\* stripped answer as content when the request succeeds, and the response-typed
\* "Continue listening" fallback (confidence 0.3, content non-empty) when the
\* request raises.
C17_OpeningSuggestion ==
    /\ (pc = "start_gen" => OpeningEvents = {})
    /\ (Started =>
          /\ Cardinality(OpeningEvents) = 1
          /\ \A k \in OpeningEvents :
                /\ sent[k].confidence > 0
                /\ \/ sent[k].stype = RAPPORT /\ sent[k].confidence = 85
                   \/ /\ sent[k].stype = RESPONSE /\ sent[k].confidence = 30
                      /\ sent[k].content # "")

\* start has returned after the reasoning service failed: the fallback is out
C17_Witness ==
    /\ Started
    /\ \E k \in OpeningEvents : sent[k].stype = RESPONSE /\ sent[k].confidence = 30

\* end_call returns in this step
EndCallReturns == Len(results') > Len(results)

\* C18: when end_call returns, no task of the session is pending: none waits
\* to be started and none is suspended on a sentiment, analysis or generation
\* request.
C18_NoTaskPendingAtEnd ==
    [][ EndCallReturns => ready' = <<>> /\ waiting' = {} ]_vars

\* a suggestion generation or a sentiment analysis of the session is in flight
RequestInFlight ==
    \/ pc \in {"start_gen", "req_gen", "discovery_gen"}
    \/ \E t \in waiting : t.kind \in {"gen", "analysis", "sentiment"}

\* C19: while a suggestion generation or a sentiment analysis is in flight,
\* the connection is at its receive and takes the next inbound frame.
C19_NonBlockingIntake == RequestInFlight => pc = "recv"

\* the connections whose websocket_call is not over
OpenConns ==
    (IF pc # "done" THEN {Conn} ELSE {}) \cup (IF peer = "open" THEN {PeerConn} ELSE {})

\* C20: the registry holds an entry for the call id exactly while a connection
\* that registered a session for it is open, the entry belongs to an open
\* connection, and no step replaces or removes the entry of a connection that
\* stays open.
C20_RegistryConsistency ==
    [][ /\ (Registered(CallId)' <=> OpenConns' # {})
        /\ (Registered(CallId)' => active_sessions'[CallId] \in OpenConns')
        /\ (Registered(CallId) /\ active_sessions[CallId] \in OpenConns'
              => Registered(CallId)' /\ active_sessions'[CallId] = active_sessions[CallId])
      ]_vars

\* the session was started and has ended (end_call has returned and no 'start'
\* came after), and the connection is at its receive or inside a consent handler
EndedAtConsent ==
    /\ start_time # <<>> /\ Len(results) > 0 /\ ~is_active
    /\ pc \in {"recv", "grant_db", "deny_db"}

\* C21: when the session has ended, processing a consent_granted or
\* consent_denied frame changes neither the session's consent flag nor the
\* consent status of the call row, and sends no consent event.
C21_ConsentOnlyBeforeEnd ==
    [][ EndedAtConsent
          => /\ consent_granted' = consent_granted
             /\ db'.consent = db.consent
             /\ ConsentStatuses(sent') = ConsentStatuses(sent) ]_vars

\* a step of the handling of a consent_denied frame: its receipt, or the
\* rest of deny_consent from the database's answer on
DenyReceived == now' # now /\ last_frame' = "consent_denied"
DenyCompletes == pc = "deny_db" /\ pc' # "deny_db"

\* what deny_consent must leave alone: lifecycle state, start timestamp,
\* transcript history, suggestion history, registry entry
DenyFrame ==
    /\ is_active' = is_active /\ start_time' = start_time
    /\ segments' = segments /\ suggestions' = suggestions
    /\ active_sessions' = active_sessions

\* C22: processing consent_denied leaves the lifecycle state, the start
\* timestamp, both histories and the registry entry unchanged, sends exactly
\* one consent event with status denied, and the connection goes back to its
\* receive for the next control message.
C22_DenyKeepsSession ==
    [][ /\ (DenyReceived => DenyFrame /\ sent' = sent)
        /\ (DenyCompletes
              => /\ DenyFrame
                 /\ sent' = Append(sent, [type |-> "consent", status |-> "denied"])
                 /\ pc' = "recv" /\ loop_exit' = "none" /\ escaped' = "none") ]_vars

\* C25: on an active session, a failure of the consent-status update of
\* grant_consent or deny_consent is absorbed: the consent flag stays as the
\* handler set it, the consent event is still sent, the session stays active
\* and the connection goes back to its receive.
C25_ConsentWriteAbsorbed ==
    [][ is_active /\ pc \in {"grant_db", "deny_db"} /\ pc' # pc
          => /\ consent_granted' = consent_granted
             /\ Len(ConsentStatuses(sent')) = Len(ConsentStatuses(sent)) + 1
             /\ is_active'
             /\ pc' = "recv" /\ loop_exit' = "none" /\ escaped' = "none" ]_vars

\* end_call is in progress on a session that 'start' never reached
EndingUnstarted == start_time = <<>> /\ pc \in {"end_summary", "end_exec", "end_commit"}

\* the talk ratio of a call in which no party spoke
ZeroTalkRatio == [salesperson |-> <<0, 1>>, prospect |-> <<0, 1>>]

\* C23: end_call on a session that never became active does not raise, and
\* returns with duration_seconds = 0, a summary, the talk ratio {0, 0}, an
\* empty sentiment timeline, one call_ended event sent, the session not active.
C23_EndWithoutStart ==
    [][ EndingUnstarted /\ pc' # pc
          => /\ loop_exit' = "none" /\ escaped' = "none"
             /\ pc' \in {"end_exec", "end_commit", "recv"}
             /\ ~is_active'
             /\ (pc' = "recv"
                   => /\ Len(results') = Len(results) + 1
                      /\ CallEndedCount(sent') = CallEndedCount(sent) + 1
                      /\ LET result == results'[Len(results')]
                         IN /\ result.duration_seconds = 0
                            /\ result.summary # "none"
                            /\ result.talk_ratio = ZeroTalkRatio
                            /\ result.sentiment_timeline = <<>>) ]_vars

\* the connection coroutine is suspended on a request to the reasoning service
WaitingOnService == pc \in {"start_gen", "req_gen", "discovery_gen", "end_summary"}

\* C24: an operation of the session that waits for the reasoning service
\* eventually goes on, whether or not the service answers; in particular
\* end_call, waiting for the summary, eventually gets past it.
C24_BoundedWaiting == WaitingOnService ~> ~WaitingOnService

\* a frame of a type the dispatcher has no branch for is received in this step
IgnoredFrameStep == now' # now /\ last_frame' = "ignored"

\* C26: a JSON message whose type is unknown or absent sends nothing to the
\* client, changes no state of the session, its services or the database,
\* raises nothing, and leaves the channel open and the loop at its receive.
C26_UnknownTypeIgnored ==
    [][ IgnoredFrameStep
          => /\ sent' = sent
             /\ sessVars' = sessVars /\ adapterVars' = adapterVars
             /\ engineVars' = engineVars /\ sentiment_history' = sentiment_history
             /\ db' = db /\ active_sessions' = active_sessions
             /\ loop_exit' = "none" /\ escaped' = "none"
             /\ channel' = "open" /\ pc' = "recv" ]_vars

\* an unknown frame has been received on an active session with consent
\* granted, and the connection is at its receive
C26_Witness ==
    last_frame = "ignored" /\ is_active /\ consent_granted /\ pc = "recv"

\* the task the loop starts next is the on_suggestion_needed of an utterance
SuggestionNeededNext == ready # <<>> /\ Head(ready).kind = "on_suggestion_needed"

\* C27: when on_suggestion_needed is about to start for an utterance (and to
\* read the session's history), on_transcript has already appended that
\* utterance's segment to the history.
C27_AppendBeforeSuggestion ==
    SuggestionNeededNext
      => \E i \in 1..Len(segments) : segments[i] = Head(ready).seg

\* on_suggestion_needed has run for a final prospect segment and its analysis
\* is requested, the segment being in the history
C27_Witness ==
    \E t \in waiting :
        /\ t.kind = "analysis"
        /\ \E i \in 1..Len(segments) : segments[i].id = t.trigger

\* C29: every segment of the session's transcript history (the list the
\* end-of-call talk ratio is computed from) is final.
C29_OnlyFinalRetained ==
    \A i \in 1..Len(segments) : segments[i].is_final

\* the flow the routing rule names for an analysis, the context being at stage
RoutedFlow(analysis, stage) ==
    CASE analysis.intent = "objection" -> HANDLE_OBJECTION
      [] analysis.intent = "question" -> ANSWER_QUESTION
      [] /\ analysis.intent \notin {"objection", "question"}
         /\ (analysis.intent = "interest" \/ analysis.buying)
         /\ stage = "closing" -> CLOSING_FLOW
      [] /\ analysis.intent \notin {"objection", "question"}
         /\ (analysis.intent = "interest" \/ analysis.buying)
         /\ stage # "closing" -> NEXT_STEP_FLOW
      [] analysis.intent = "rejection" /\ ~analysis.buying -> HANDLE_REJECTION
      [] analysis.intent \notin {"objection", "question", "interest", "rejection"}
         /\ ~analysis.buying -> CONTINUATION

\* the suggestion type the routing rule names
RoutedType(analysis, stage) ==
    LET flow == RoutedFlow(analysis, stage)
    IN CASE flow = HANDLE_OBJECTION -> OBJECTION_HANDLER
         [] flow = CLOSING_FLOW -> CLOSING
         [] flow = NEXT_STEP_FLOW -> NEXT_STEP
         [] flow = CONTINUATION /\ stage = "discovery" -> QUESTION
         [] OTHER -> RESPONSE

\* C30: for every analysis and context stage the policy requests exactly one
\* generation, that of the flow chosen in the order objection, question,
\* interest or buying signal (closing flow when the stage just updated is
\* closing, next-step flow otherwise), rejection, continuation (question-typed
\* when the stage is discovery, response-typed otherwise).
C30_DispatchRouting ==
    \A a \in analysed :
        /\ a.analysis.stage # "absent" => context.current_stage = a.analysis.stage
        /\ Cardinality({t \in waiting : t.kind = "gen"}) = 1
        /\ \A t \in waiting :
              t.kind = "gen"
                => /\ t.flow = RoutedFlow(a.analysis, context.current_stage)
                   /\ t.stype = RoutedType(a.analysis, context.current_stage)

\* an objection that is also a buying signal has been routed to the
\* objection-handler flow
C30_Witness ==
    \E a \in analysed, t \in waiting :
        /\ a.analysis.intent = "objection" /\ a.analysis.buying
        /\ t.kind = "gen" /\ t.flow = HANDLE_OBJECTION

\* process_transcript is suspended on the analysis of an utterance: its
\* history append is done, its context update and routing are to come
HandlingInProgress(t) == t \in waiting /\ t.kind = "analysis"

\* this step is the context update and routing of the utterance of t
ContextUpdateOf(t) == HandlingInProgress(t) /\ t \notin waiting'

\* C28: the context update of an utterance never falls between the history
\* append and the context update of another utterance, and the stage the
\* routing of an utterance reads is the stage its own analysis suggests.
C28_SingleWriter ==
    [][ \A t \in waiting :
          ContextUpdateOf(t)
            => /\ \A u \in waiting : HandlingInProgress(u) => u = t
               /\ \A a \in analysed' \ analysed :
                     a.analysis.stage # "absent"
                       => context'.current_stage = a.analysis.stage ]_vars

\* the frames that ask for a suggestion
RequestFrames ==
    {"request_product", "request_objection_help", "request_closing", "request_discovery"}

\* the kind of suggestion each request is for
FixedKind(frame) ==
    CASE frame = "request_product" -> PRODUCT_PITCH
      [] frame = "request_objection_help" -> OBJECTION_HANDLER
      [] frame = "request_closing" -> CLOSING
      [] frame = "request_discovery" -> QUESTION

\* a step of the handler of a request frame: its receipt, or its continuation
\* from the answer of the reasoning service on
RequestStep ==
    /\ last_frame' \in RequestFrames
    /\ (now' # now \/ pc \in {"req_gen", "discovery_gen"})

\* the engine state a request must leave alone: no analysis is made, the
\* context and the conversation history stay
NoDispatch ==
    context' = context /\ conversation_history' = conversation_history
    /\ analysed' = analysed

\* C31 as claimed: every suggestion a request yields is of the request's
\* fixed kind, whatever the services answer; no analysis is made and the
\* context is unchanged.
C31_RequestsFixedKind ==
    [][ RequestStep
          => /\ \A k \in (Len(sent) + 1)..Len(sent') :
                   sent'[k].type = "suggestion" /\ sent'[k].stype = FixedKind(last_frame')
             /\ NoDispatch ]_vars

\* the suggestions a request may yield: its fixed kind from a generation that
\* succeeds (or from the discovery answer), the response-typed fallback of a
\* generation that raises, and the question asked when no product matches
YieldedBy(frame, e) ==
    \/ /\ frame # "request_discovery"
       /\ e.stype = FixedKind(frame) /\ e.confidence = 85
    \/ /\ frame = "request_discovery"
       /\ e.stype = QUESTION /\ e.confidence \in {80, 60}
    \/ /\ frame # "request_discovery"
       /\ e.stype = RESPONSE /\ e.confidence = 30
       /\ e.content = "Continue listening and ask clarifying questions."
    \/ /\ frame = "request_product"
       /\ e.stype = QUESTION /\ e.confidence = 50

\* C31 as amended: a request yields only suggestions of its fixed kind, the
\* response-typed fallback (confidence 0.3) when its generation raises, or,
\* for request_product with no matching product, a question (confidence 0.5);
\* no analysis is made and the context is unchanged.
C31_RequestsBypassDispatch ==
    [][ RequestStep
          => /\ \A k \in (Len(sent) + 1)..Len(sent') :
                   sent'[k].type = "suggestion" /\ YieldedBy(last_frame', sent'[k])
             /\ NoDispatch ]_vars

\* a request_closing whose generation raised has been answered with the fallback
C31_Witness ==
    /\ last_frame = "request_closing" /\ pc = "recv" /\ sent # <<>>
    /\ sent[Len(sent)].type = "suggestion"
    /\ sent[Len(sent)].stype = RESPONSE /\ sent[Len(sent)].confidence = 30


\* this step ends an analyze_sentiment call that returned a result: the
\* session sends the sentiment event made from it
SentimentReturned ==
    /\ Len(sent') = Len(sent) + 1
    /\ sent'[Len(sent')].type = "sentiment"

\* C32: every analyze_sentiment call that returns a result - the neutral
\* default of an unparseable classifier output included - appends exactly one
\* sample carrying the call's timestamp to the sentiment history, and no step
\* removes or rewrites an earlier sample.
C32_SamplePerAnalysis ==
    [][ /\ Len(sentiment_history') >= Len(sentiment_history)
        /\ SubSeq(sentiment_history', 1, Len(sentiment_history)) = sentiment_history
        /\ SentimentReturned
             => sentiment_history' =
                  Append(sentiment_history,
                         [timestamp |-> sent'[Len(sent')].timestamp]) ]_vars


\* the timestamps of get_sentiment_timeline never decrease
Chronological(timeline) ==
    \A i \in 1..Len(timeline) : \A j \in i..Len(timeline) :
        timeline[i].timestamp <= timeline[j].timestamp

\* C33: the sentiment timeline is in non-decreasing timestamp order in every
\* reachable state, the adapter delivering the utterances in increasing
\* start_time order, however the classifications of concurrent on_transcript
\* tasks complete.
C33_TimelineChronological == Chronological(sentiment_history)


\* this step runs the on_suggestion_needed task at the head of the ready queue
SuggestionNeededRuns == SuggestionNeededNext /\ ready' = Tail(ready)

\* C34: when on_suggestion_needed runs while the session's transcript history
\* is empty, it emits no suggestion, makes no call to the suggestion engine,
\* and leaves the suggestion history, the conversation context and the
\* engine's conversation history unchanged.
C34_EmptyHistoryIgnored ==
    [][ SuggestionNeededRuns /\ segments = <<>>
          => /\ sent' = sent /\ suggestions' = suggestions
             /\ waiting' = waiting /\ analysed' = analysed
             /\ context' = context
             /\ conversation_history' = conversation_history ]_vars

\* a signal was given and handled while the history was empty
C34_Witness ==
    /\ Len(Signals) > 0 /\ ready = <<>> /\ segments = <<>> /\ ts_segments = <<>>


\* no topic appears twice in a list of objections
IsSetLike(topics) ==
    \A i \in 1..Len(topics) : \A j \in 1..Len(topics) :
        topics[i] = topics[j] => i = j

CalibratedBefore(speaker_id, i) ==
    \E k \in 1..(i - 1) :
        observed[k].op = "calibrate" /\ observed[k].speaker_id = speaker_id

\* the i-th call resolves an id that no call calibrated before
HeuristicResolution(i) ==
    /\ observed[i].op = "resolve" /\ observed[i].speaker_id # NoSpeaker
    /\ ~CalibratedBefore(observed[i].speaker_id, i)

\* the uncalibrated ids observed before the i-th call
HeuristicIdsBefore(i) ==
    {observed[k].speaker_id : k \in {n \in 1..(i - 1) : HeuristicResolution(n)}}

\* C36: calibrating one id does not change the role the heuristic gives to
\* another: the first distinct uncalibrated id observed resolves to the
\* salesperson and the second to the prospect, whether ids were calibrated
\* before or between the observations.
C36_CalibrationLocal ==
    \A i \in 1..Len(observed) :
        (HeuristicResolution(i) /\ observed[i].speaker_id \notin HeuristicIdsBefore(i))
          => /\ HeuristicIdsBefore(i) = {} => observed[i].speaker = SALESPERSON
             /\ Cardinality(HeuristicIdsBefore(i)) = 1 => observed[i].speaker = PROSPECT


\* the analysis requests on_suggestion_needed has made, each with the segment
\* handed to the engine (seg) and the utterance it ran for (trigger)
AnalysisRequests == {t \in waiting : t.kind = "analysis"}

\* C37: the segment on_suggestion_needed hands to the dispatch policy for a
\* final counterparty utterance is that utterance's own segment, however the
\* arrival of later segments interleaves with the tasks.
C37_SuggestionFromTrigger ==
    \A t \in AnalysisRequests : t.seg.id = t.trigger

\* the suggestion of the second utterance was requested when the adapter had
\* already taken a third, whose tasks were still to start
C37_Witness ==
    /\ \E t \in AnalysisRequests :
          /\ t.trigger = 2 /\ t.seg.id = 2
          /\ \E k \in 1..Len(t.transcript) : t.transcript[k].id = 3
    /\ \E k \in 1..Len(ready) : ready[k].seg.id = 3


\* C38: after the call_ended event has been sent, no transcript, sentiment or
\* suggestion event is sent, and the suggestions_count call_ended reports is
\* the number of suggestion events the client receives, however end_call
\* interleaves with the background tasks in flight.
C38_CallEndedLast ==
    \A k \in 1..Len(sent) :
        IsCallEnded(sent[k])
          => /\ \A j \in (k + 1)..Len(sent) :
                   sent[j].type \notin {"transcript", "sentiment", "suggestion"}
             /\ sent[k].data.suggestions_count = Len(SelectSeq(sent, IsSuggestionEvent))


\* C39: the session's start timestamp is assigned by the first 'start' and
\* never changes afterwards, and a 'start' processed while the session is
\* ACTIVE leaves the conversation context as it is and opens no second
\* opening-suggestion request.
C39_StartOnce ==
    [][ /\ start_time # <<>> => start_time' = start_time
        /\ (is_active /\ now' # now /\ last_frame' = "start")
             => /\ context' = context
                /\ conversation_history' = conversation_history
                /\ pc' # "start_gen" ]_vars


\* the set of the final segments of a list
FinalSet(segs) == {segs[i] : i \in {n \in 1..Len(segs) : segs[n].is_final}}

\* this step of end_call computes the talk ratio from the session's history;
\* with the transcript read from the adapter it makes end_call's result
ComposesResult == pc = "end_summary" /\ pc' = "end_exec"

\* C40: when end_call composes its result, the final segments of the session
\* history (input to the talk ratio) are the final segments taken from the
\* transcription adapter (input to the persisted transcript and the summary),
\* however end_call interleaves with the adapter's pending callbacks.
C40_EndDataConsistent ==
    [][ ComposesResult => FinalSet(segments) = FinalSet(req.transcript) ]_vars

====
